---------------------------- MODULE Spec2Model ----------------------------
(***************************************************************************)
(* HV PackFile extractor (src/main.rs): the archive decoder as a state     *)
(* machine.  The archive is a sequence of bytes; the decoder walks the     *)
(* node stream with one sequential cursor, fetches payloads with           *)
(* positioned reads, and issues create-directory / create-file requests.   *)
(* The recursion of read_next/read_directory is an explicit stack of loop  *)
(* frames; one step of the machine is one call of read_next.               *)
(***************************************************************************)
EXTENDS Integers, Sequences, FiniteSets, TLC

VARIABLES hvp,      \* the opened archive: [bytes, pos], pos = sequential cursor
          pc,       \* "main", "decode", "done", "badtag", "panic"
          failure,  \* why the process panicked: "none", "utf8", "create"
          stack,    \* the active `for` loops: frames [path, left, dir]
          effects,  \* requests issued to the filesystem so far, in order
          fs        \* the filesystem below the working directory: [dirs, files]

vars == <<hvp, pc, failure, stack, effects, fs>>

(***************************************************************************)
(* Bounds of the explored inputs.                                          *)
(***************************************************************************)
MaxNodes == 3       \* nodes in a generated node stream
MaxCutNodes == 2    \* nodes in a node stream that is then cut short
MaxCut == 40        \* bytes a truncated node stream may lose at its end

(***************************************************************************)
(* Bytes and small helpers.                                                *)
(***************************************************************************)
Min(a, b) == IF a < b THEN a ELSE b

Zeros(n) == [i \in 1..n |-> 0]

Take(s, n) == SubSeq(s, 1, Min(n, Len(s)))

Drop(s, n) == SubSeq(s, n + 1, Len(s))

\* "HV PackFile"
TAG == <<72, 86, 32, 80, 97, 99, 107, 70, 105, 108, 101>>

Sep == 47           \* '/', std::path::MAIN_SEPARATOR on unix

(***************************************************************************)
(* The byte cursor reader.  Every read ignores the Result of read_exact:   *)
(* a short read leaves the unread tail of the zero-initialised buffer      *)
(* untouched and the cursor at the end of the file.                        *)
(***************************************************************************)
read_bytes(file, bytes) ==
    LET avail == Len(file.bytes) - file.pos
        got   == Min(bytes, avail)
    IN  [val  |-> SubSeq(file.bytes, file.pos + 1, file.pos + got) \o Zeros(bytes - got),
         file |-> [file EXCEPT !.pos = file.pos + got]]

skip_bytes(file, bytes) == read_bytes(file, bytes).file

read_four(file) == read_bytes(file, 4)

read_integer(file) ==
    LET r == read_four(file)
    IN  [val  |-> ((r.val[1] * 256 + r.val[2]) * 256 + r.val[3]) * 256 + r.val[4],
         file |-> r.file]

read_one(file) ==
    LET r == read_bytes(file, 1)
    IN  [val |-> r.val[1], file |-> r.file]

\* A payload read done with seek + read_exact: it leaves the sequential
\* cursor behind the payload.  (Faulty variant, see C9.)
read_uncompressed_seek(file, offset, size) ==
    LET got == IF offset >= Len(file.bytes) THEN 0 ELSE Min(size, Len(file.bytes) - offset)
    IN  [val  |-> SubSeq(file.bytes, offset + 1, offset + got) \o Zeros(size - got),
         file |-> [file EXCEPT !.pos = offset + got]]

\* read_exact_at (pread): bytes at an absolute offset, zero tail on a short
\* read; the handle comes back with its sequential cursor where it was.
read_uncompressed(file, offset, size) ==
    LET got == IF offset >= Len(file.bytes) THEN 0 ELSE Min(size, Len(file.bytes) - offset)
    IN  [val  |-> SubSeq(file.bytes, offset + 1, offset + got) \o Zeros(size - got),
         file |-> file]

(***************************************************************************)
(* zlib::Decoder.  The stream is a two-byte header, deflate blocks, and    *)
(* the big-endian Adler-32 of the output.  Stored blocks (BTYPE = 00) are  *)
(* decoded; the explored archives hold no Huffman-coded block.             *)
(* Inflate gives the bytes produced and whether the stream ended cleanly.  *)
(***************************************************************************)
RECURSIVE AdlerA(_), AdlerB(_)
AdlerA(s) == IF s = <<>> THEN 1 ELSE (AdlerA(Take(s, Len(s) - 1)) + s[Len(s)]) % 65521
AdlerB(s) == IF s = <<>> THEN 0 ELSE (AdlerB(Take(s, Len(s) - 1)) + AdlerA(s)) % 65521

Adler32(s) == AdlerB(s) * 65536 + AdlerA(s)

ZlibHeaderOk(raw) ==
    /\ Len(raw) >= 2
    /\ raw[1] % 16 = 8                       \* CM = deflate
    /\ raw[1] \div 16 <= 7                   \* CINFO
    /\ (raw[1] * 256 + raw[2]) % 31 = 0      \* FCHECK
    /\ (raw[2] \div 32) % 2 = 0              \* no preset dictionary

RECURSIVE InflateBlocks(_, _)
InflateBlocks(raw, out) ==
    IF Len(raw) < 1 THEN [out |-> out, ok |-> FALSE]
    ELSE LET bfinal == raw[1] % 2
             btype  == (raw[1] \div 2) % 4
         IN  IF btype # 0 \/ Len(raw) < 5 THEN [out |-> out, ok |-> FALSE]
             ELSE LET len  == raw[2] + 256 * raw[3]
                      nlen == raw[4] + 256 * raw[5]
                      body == Drop(raw, 5)
                  IN  IF len + nlen # 65535 THEN [out |-> out, ok |-> FALSE]
                      ELSE IF Len(body) < len
                           THEN [out |-> out \o body, ok |-> FALSE]
                      ELSE LET out2 == out \o Take(body, len)
                               rest == Drop(body, len)
                           IN  IF bfinal = 0 THEN InflateBlocks(rest, out2)
                               ELSE IF Len(rest) < 4 THEN [out |-> out2, ok |-> FALSE]
                               ELSE [out |-> out2,
                                     ok  |-> ((rest[1] * 256 + rest[2]) * 256 + rest[3]) * 256
                                                 + rest[4] = Adler32(out2)]

Inflate(raw) ==
    IF ZlibHeaderOk(raw) THEN InflateBlocks(Drop(raw, 2), <<>>)
    ELSE [out |-> <<>>, ok |-> FALSE]

\* What read_to_end hands over: everything on a clean end of stream; on an
\* error, the bytes of the reads that succeeded before it, some prefix of
\* the bytes produced.
Inflated(raw) ==
    LET r == Inflate(raw)
    IN  IF r.ok THEN {r.out} ELSE {Take(r.out, k) : k \in 0..Len(r.out)}

\* The possible results of read_compressed.  read_to_end appends to the
\* vector, which already holds `size` zero bytes.
read_compressed(file, offset, comp_size, size) ==
    LET compressed == read_uncompressed(file, offset, comp_size).val
    IN  {Zeros(size) \o d : d \in Inflated(compressed)}

(***************************************************************************)
(* Names and paths.                                                        *)
(***************************************************************************)
Cont(b) == b >= 128 /\ b <= 191

\* String::from_utf8(name).is_ok()
RECURSIVE from_utf8(_)
\* A decoder that accepts every byte sequence.  (Faulty variant, see C4.)
from_utf8_lossy(name) == TRUE

from_utf8(name) ==
    IF name = <<>> THEN TRUE
    ELSE LET b == name[1]
             n == Len(name)
         IN  IF b < 128 THEN from_utf8(Drop(name, 1))
             ELSE IF b >= 194 /\ b <= 223
                  THEN n >= 2 /\ Cont(name[2]) /\ from_utf8(Drop(name, 2))
             ELSE IF b >= 224 /\ b <= 239
                  THEN /\ n >= 3 /\ Cont(name[2]) /\ Cont(name[3])
                       /\ (b = 224 => name[2] >= 160)
                       /\ (b = 237 => name[2] <= 159)
                       /\ from_utf8(Drop(name, 3))
             ELSE IF b >= 240 /\ b <= 244
                  THEN /\ n >= 4 /\ Cont(name[2]) /\ Cont(name[3]) /\ Cont(name[4])
                       /\ (b = 240 => name[2] >= 144)
                       /\ (b = 244 => name[2] <= 143)
                       /\ from_utf8(Drop(name, 4))
             ELSE FALSE

\* The arguments of join swapped.  (Faulty variant, see C7.)
join_reversed(path, name) ==
    IF path # <<>> /\ path[1] = Sep THEN path
    ELSE IF name # <<>> /\ name[Len(name)] # Sep THEN name \o <<Sep>> \o path
    ELSE name \o path

\* Path::join (PathBuf::push): an absolute name replaces the path, otherwise
\* the name is appended after a separator the path does not already end with.
join(path, name) ==
    IF name # <<>> /\ name[1] = Sep THEN name
    ELSE IF path # <<>> /\ path[Len(path)] # Sep THEN path \o <<Sep>> \o name
    ELSE path \o name

\* Path::components: the pieces between separators, empty pieces dropped.
RECURSIVE Split(_, _, _)
Split(p, cur, acc) ==
    IF p = <<>> THEN (IF cur = <<>> THEN acc ELSE Append(acc, cur))
    ELSE IF p[1] = Sep
         THEN Split(Drop(p, 1), <<>>, IF cur = <<>> THEN acc ELSE Append(acc, cur))
         ELSE Split(Drop(p, 1), Append(cur, p[1]), acc)

Components(p) == Split(p, <<>>, <<>>)

HasNul(p) == \E i \in 1..Len(p) : p[i] = 0


(***************************************************************************)
(* The filesystem the requests act on: the directories and files that      *)
(* exist, each as the sequence of its path components.                     *)
(***************************************************************************)
Ancestors(cs) == {SubSeq(cs, 1, k) : k \in 0..Len(cs)}

\* std::fs::create_dir_all: fails on an interior NUL byte or when a
\* component of the path is a file; otherwise the directory and every
\* missing ancestor exist afterwards.
create_dir_all(fsys, path) ==
    LET cs == Components(path)
        ok == ~HasNul(path) /\ Ancestors(cs) \cap fsys.files = {}
    IN  [ok |-> ok,
         fs |-> IF ok THEN [fsys EXCEPT !.dirs = @ \cup Ancestors(cs)] ELSE fsys]

\* create_dir: the Result of create_dir_all is dropped.
create_dir(fsys, path) == create_dir_all(fsys, path)

\* File::create: open(O_WRONLY | O_CREAT | O_TRUNC).  Fails on an interior
\* NUL byte, on a trailing separator, when the parent is not a directory
\* and when the path is a directory.  create_file unwraps the Result.
create_file(fsys, path) ==
    LET cs == Components(path)
        ok == /\ ~HasNul(path)
              /\ cs # <<>>
              /\ path[Len(path)] # Sep
              /\ SubSeq(cs, 1, Len(cs) - 1) \in fsys.dirs
              /\ cs \notin fsys.dirs
    IN  [ok |-> ok,
         fs |-> IF ok THEN [fsys EXCEPT !.files = @ \cup {cs}] ELSE fsys]

(***************************************************************************)
(* The archive tree decoder.                                               *)
(***************************************************************************)
\* main without the comparison against TAG.  (Faulty variant, see C5.)
main_unchecked(file) ==
    LET t  == read_bytes(file, 11)
        f1 == skip_bytes(t.file, 5)
        n  == read_integer(f1)
    IN  [valid |-> TRUE, n |-> n.val, file |-> skip_bytes(n.file, 20)]

\* main from File::open to the loop: the tag check and the header.
main(file) ==
    LET t == read_bytes(file, 11)
    IN  IF t.val # TAG THEN [valid |-> FALSE, n |-> 0, file |-> t.file]
        ELSE LET f1 == skip_bytes(t.file, 5)
                 n  == read_integer(f1)
             IN  [valid |-> TRUE, n |-> n.val, file |-> skip_bytes(n.file, 20)]

read_next(file) ==
    LET f1 == skip_bytes(file, 4)
        t  == read_one(f1)
    IN  [file_type |-> t.val, file |-> t.file]

\* read_directory that keeps the parent's path.  (Faulty variant, see C6.)
read_directory_unjoined(file, path) ==
    LET f1 == skip_bytes(file, 4)
        n  == read_integer(f1)
        l  == read_integer(n.file)
        nm == read_bytes(l.file, l.val)
    IN  [file |-> nm.file, no_of_files |-> n.val, name_length |-> l.val,
         name |-> nm.val, utf8 |-> from_utf8(nm.val), path |-> path]

\* read_directory up to create_dir: the fields read and the joined path.
read_directory(file, path) ==
    LET f1 == skip_bytes(file, 4)
        n  == read_integer(f1)
        l  == read_integer(n.file)
        nm == read_bytes(l.file, l.val)
    IN  [file |-> nm.file, no_of_files |-> n.val, name_length |-> l.val,
         name |-> nm.val, utf8 |-> from_utf8(nm.val), path |-> join(path, nm.val)]

\* read_file that sizes an uncompressed payload by comp_size.  (Faulty
\* variant, see C2.)
read_file_comp_size(file, path) ==
    LET c  == read_integer(file)
        cs == read_integer(c.file)
        sz == read_integer(cs.file)
        f4 == skip_bytes(sz.file, 4)
        o  == read_integer(f4)
        l  == read_integer(o.file)
        nm == read_bytes(l.file, l.val)
        u  == read_uncompressed(nm.file, o.val, cs.val)
    IN  [file |-> u.file, named |-> nm.file, is_compressed |-> c.val, comp_size |-> cs.val, size |-> sz.val,
         offset |-> o.val, name_length |-> l.val, name |-> nm.val,
         utf8 |-> from_utf8(nm.val),
         data |-> IF c.val # 0
                  THEN read_compressed(nm.file, o.val, cs.val, sz.val)
                  ELSE {u.val},
         path |-> join(path, nm.val)]

\* read_file up to create_file: the fields read, the possible payloads and
\* the joined path.  `named` is the handle after the name, `file` the handle
\* after the payload read.
read_file(file, path) ==
    LET c  == read_integer(file)
        cs == read_integer(c.file)
        sz == read_integer(cs.file)
        f4 == skip_bytes(sz.file, 4)
        o  == read_integer(f4)
        l  == read_integer(o.file)
        nm == read_bytes(l.file, l.val)
        u  == read_uncompressed(nm.file, o.val,
                                IF c.val # 0 THEN cs.val ELSE sz.val)
    IN  [file |-> u.file, named |-> nm.file, is_compressed |-> c.val, comp_size |-> cs.val, size |-> sz.val,
         offset |-> o.val, name_length |-> l.val, name |-> nm.val,
         utf8 |-> from_utf8(nm.val),
         data |-> IF c.val # 0
                  THEN read_compressed(nm.file, o.val, cs.val, sz.val)
                  ELSE {u.val},
         path |-> join(path, nm.val)]

\* The `for` loops of main and read_directory: a loop with no iteration
\* left returns to its caller.
RECURSIVE unwind(_)
unwind(st) ==
    IF st # <<>> /\ st[Len(st)].left = 0 THEN unwind(SubSeq(st, 1, Len(st) - 1)) ELSE st

Top == stack[Len(stack)]

\* The frame of the running loop after one more call of read_next.
Called == [stack EXCEPT ![Len(stack)].left = @ - 1]

out_dir == <<111>>      \* "o", the output directory; main checked it exists


(***************************************************************************)
(* The archives explored.  An archive is laid out as main, read_directory  *)
(* and read_file read it: the header, the node stream in pre-order, then   *)
(* the payload area.  Ignored fields are filled with a nonzero byte.       *)
(***************************************************************************)
Pad(n) == [i \in 1..n |-> 170]

U32(v) == <<(v \div 16777216) % 256, (v \div 65536) % 256, (v \div 256) % 256, v % 256>>

Header(tag, n) == tag \o Pad(5) \o U32(n) \o Pad(20)

HeaderLen == 40

\* zlib stream of "hello" in one stored block; bytes 8..12 are "hello" itself.
ZHello == <<120, 1, 1, 5, 0, 250, 255, 104, 101, 108, 108, 111, 6, 44, 2, 21>>

\* A node as generated: kind, child count, name, and for a file the payload
\* fields with the offset relative to the payload area.
DirNode(count, name) ==
    [kind |-> "dir", count |-> count, name |-> name,
     is_compressed |-> 0, comp_size |-> 0, size |-> 0, rel |-> 0]

FileNode(name, pl) ==
    [kind |-> "file", count |-> 0, name |-> name,
     is_compressed |-> pl[1], comp_size |-> pl[2], size |-> pl[3], rel |-> pl[4]]

NodeBytes(nd, base) ==
    IF nd.kind = "dir"
    THEN Pad(4) \o <<0>> \o Pad(4) \o U32(nd.count) \o U32(Len(nd.name)) \o nd.name
    ELSE Pad(4) \o <<1>> \o U32(nd.is_compressed) \o U32(nd.comp_size) \o U32(nd.size)
              \o Pad(4) \o U32(base + nd.rel) \o U32(Len(nd.name)) \o nd.name

NodeLen(nd) == (IF nd.kind = "dir" THEN 17 ELSE 29) + Len(nd.name)

RECURSIVE StreamLen(_)
StreamLen(nodes) ==
    IF nodes = <<>> THEN 0 ELSE NodeLen(nodes[1]) + StreamLen(Drop(nodes, 1))

RECURSIVE StreamBytes(_, _)
StreamBytes(nodes, base) ==
    IF nodes = <<>> THEN <<>>
    ELSE NodeBytes(nodes[1], base) \o StreamBytes(Drop(nodes, 1), base)

RECURSIVE CountSum(_)
CountSum(nodes) == IF nodes = <<>> THEN 0 ELSE nodes[1].count + CountSum(Drop(nodes, 1))

\* The root entry count of a pre-order node list, and whether the child
\* counts describe a forest of exactly these nodes.
Roots(nodes) == Len(nodes) - CountSum(nodes)

Forest(nodes) ==
    \A j \in 0..(Len(nodes) - 1) : Roots(nodes) + CountSum(Take(nodes, j)) - j > 0

Archive(tag, nodes) ==
    Header(tag, Roots(nodes)) \o StreamBytes(nodes, HeaderLen + StreamLen(nodes)) \o ZHello

\* The same without its payload area and with the last `cut` bytes missing.
Truncated(nodes, cut) ==
    LET full == Header(TAG, Roots(nodes)) \o StreamBytes(nodes, HeaderLen + StreamLen(nodes))
    IN  Take(full, Len(full) - cut)

NameA == <<97>>                 \* "a"
NameB == <<98>>                 \* "b"
NameAB == <<97, 47, 98>>        \* "a/b"
NameAC == <<97, 47, 99>>        \* "a/c"
NameE == <<195, 169>>           \* e-acute, two bytes
NameBadFF == <<98, 255>>        \* 0xFF never occurs in UTF-8
NameBadLead == <<195>>          \* a lead byte without its continuation

\* payload fields <<is_compressed, comp_size, size, rel>>
PlRaw == <<0, 0, 5, 7>>         \* "hello", stored as is
Payloads ==
    { PlRaw,
      <<0, 3, 5, 7>>,           \* stored; comp_size differs from size
      <<0, 16, 0, 0>>,          \* stored, empty
      <<0, 0, 5, 14>>,          \* stored; the last 3 bytes lie past the end
      <<0, 0, 2, 20>>,          \* stored; wholly past the end
      <<1, 16, 5, 0>>,          \* the zlib stream of "hello"
      <<2, 16, 5, 0>>,          \* the same, flag 2
      <<1, 16, 7, 0>>,          \* the stream ends before `size` bytes
      <<1, 16, 3, 0>>,          \* the stream yields more than `size` bytes
      <<1, 10, 5, 0>>,          \* the stream is cut inside its block
      <<1, 14, 5, 0>>,          \* the stream is cut inside its checksum
      <<1, 9, 5, 7>>,           \* not a zlib header
      <<1, 16, 5, 8>> }         \* compressed bytes run past the end

DirNames == {NameA, <<>>, NameAB, NameE, NameBadFF}
FileNames == {NameB, <<>>, NameAC, NameBadLead}

TreeNodes ==
    {DirNode(c, nm) : c \in 0..(MaxNodes - 1), nm \in DirNames}
        \cup {FileNode(nm, PlRaw) : nm \in FileNames}

PlainNodes ==
    {DirNode(c, NameA) : c \in 0..(MaxCutNodes - 1)} \cup {FileNode(NameB, PlRaw), FileNode(<<>>, PlRaw)}

PayloadLists ==
    {<<FileNode(NameB, p)>> : p \in Payloads}
        \cup {<<DirNode(1, NameA), FileNode(NameB, p)>> : p \in Payloads}
        \cup {<<FileNode(NameA, p), FileNode(NameB, q)>> : p \in Payloads, q \in Payloads}

BadTags == {[TAG EXCEPT ![i] = 0] : i \in 1..11} \cup {[TAG EXCEPT ![11] = 69]}

Start(bytes) ==
    /\ hvp = [bytes |-> bytes, pos |-> 0]
    /\ pc = "main"
    /\ failure = "none"
    /\ stack = <<>>
    /\ effects = <<>>
    /\ fs = [dirs |-> {<<>>, <<out_dir>>}, files |-> {}]

InitTree ==
    \E m \in 0..MaxNodes : \E nodes \in [1..m -> TreeNodes] :
        Forest(nodes) /\ Start(Archive(TAG, nodes))

InitPayload == \E nodes \in PayloadLists : Start(Archive(TAG, nodes))

InitTruncated ==
    \E m \in 1..MaxCutNodes : \E nodes \in [1..m -> PlainNodes] : \E cut \in 1..MaxCut :
        /\ Forest(nodes)
        /\ cut <= StreamLen(nodes)
        /\ Start(Truncated(nodes, cut))

InitBadTag ==
    \/ \E tag \in BadTags : \E nodes \in {<<>>, <<FileNode(NameB, PlRaw)>>} :
          Start(Archive(tag, nodes))
    \/ \E len \in 0..10 : Start(Take(Archive(TAG, <<FileNode(NameB, PlRaw)>>), len))

Init == InitTree \/ InitPayload \/ InitTruncated \/ InitBadTag

(***************************************************************************)
(* The steps.                                                              *)
(***************************************************************************)
Resume(st) == IF unwind(st) = <<>> THEN "done" ELSE "decode"

\* main up to the first call of read_next, or its early return.
Main ==
    /\ pc = "main"
    /\ LET m == main(hvp)
       IN  /\ hvp' = m.file
           /\ IF ~m.valid
              THEN pc' = "badtag" /\ stack' = stack
              ELSE LET st == <<[path |-> out_dir, left |-> m.n, dir |-> 0]>>
                   IN  stack' = unwind(st) /\ pc' = Resume(st)
    /\ UNCHANGED <<failure, effects, fs>>

\* What a request leaves in `effects`: the call and, for reference, the
\* node it came from (where it starts, its fields, the directory whose loop
\* decoded it).
Effect(op, r, data, ok) ==
    [op |-> op, path |-> r.path, data |-> data, ok |-> ok,
     at |-> hvp.pos, parent |-> Top.dir, name |-> r.name, name_length |-> r.name_length,
     count |-> IF op = "createContainer" THEN r.no_of_files ELSE 0,
     is_compressed |-> IF op = "writeFile" THEN r.is_compressed ELSE 0,
     comp_size |-> IF op = "writeFile" THEN r.comp_size ELSE 0,
     size |-> IF op = "writeFile" THEN r.size ELSE 0,
     offset |-> IF op = "writeFile" THEN r.offset ELSE 0]

\* read_next on a directory node: read_directory, then its loop is entered.
ReadDirectory ==
    /\ pc = "decode"
    /\ LET nx == read_next(hvp)
           d  == read_directory(nx.file, Top.path)
           c  == create_dir(fs, d.path)
           st == Append(Called, [path |-> d.path, left |-> d.no_of_files,
                                 dir |-> Len(effects) + 1])
       IN  /\ nx.file_type = 0
           /\ hvp' = d.file
           /\ IF ~d.utf8
              THEN /\ pc' = "panic" /\ failure' = "utf8"
                   /\ UNCHANGED <<stack, effects, fs>>
              ELSE /\ effects' = Append(effects, Effect("createContainer", d, <<>>, c.ok))
                   /\ fs' = c.fs
                   /\ stack' = unwind(st)
                   /\ pc' = Resume(st)
                   /\ failure' = failure

\* read_next on a file node: read_file.
ReadFile ==
    /\ pc = "decode"
    /\ LET nx == read_next(hvp)
           f  == read_file(nx.file, Top.path)
           c  == create_file(fs, f.path)
       IN  /\ nx.file_type # 0
           /\ IF ~f.utf8
              THEN /\ hvp' = f.named
                   /\ pc' = "panic" /\ failure' = "utf8"
                   /\ UNCHANGED <<stack, effects, fs>>
              ELSE /\ hvp' = f.file
                   /\ \E data \in f.data :
                        effects' = Append(effects, Effect("writeFile", f, data, c.ok))
                   /\ fs' = c.fs
                   /\ IF c.ok
                      THEN stack' = unwind(Called) /\ pc' = Resume(Called)
                           /\ failure' = failure
                      ELSE pc' = "panic" /\ failure' = "create" /\ stack' = stack

Next == Main \/ ReadDirectory \/ ReadFile

Spec == Init /\ [][Next]_vars


(***************************************************************************)
(* Properties.                                                             *)
(***************************************************************************)
Writes == {i \in DOMAIN effects : effects[i].op = "writeFile"}

Last == effects[Len(effects)]

\* s cut or zero-padded to exactly n bytes
Fit(s, n) == Take(s, n) \o Zeros(n - Min(n, Len(s)))

\* the bytes a positioned read of n bytes at offset finds in the archive
StoredAt(offset, n) ==
    [k \in 1..n |-> IF offset + k <= Len(hvp.bytes) THEN hvp.bytes[offset + k] ELSE 0]

\* the length of the payload read of a file node
ReadLen(e) == IF e.is_compressed # 0 THEN e.comp_size ELSE e.size

\* the length of the metadata of the node an effect came from
MetaLen(e) == (IF e.op = "createContainer" THEN 17 ELSE 29) + e.name_length

\* C1: the content written for a compressed file node is the inflated
\* payload, cut or zero-padded to uncompressedSize bytes.  Stated for the
\* payloads that inflate without error to exactly uncompressedSize bytes,
\* where the content is the inflated bytes themselves.
C1_CompressedContent ==
    \A i \in Writes :
        LET e == effects[i]
            r == Inflate(StoredAt(e.offset, e.comp_size))
        IN  (e.is_compressed # 0 /\ r.ok /\ Len(r.out) = e.size) => e.data = r.out

\* C2: the content written for an uncompressed file node has exactly
\* uncompressedSize bytes and each of them is the archive's byte at
\* payloadOffset + its index; compressedSize plays no part.
C2_UncompressedIdentity ==
    \A i \in Writes :
        LET e == effects[i]
        IN  e.is_compressed = 0 =>
                /\ Len(e.data) = e.size
                /\ \A k \in 1..e.size :
                       e.offset + k <= Len(hvp.bytes) => e.data[k] = hvp.bytes[e.offset + k]

C2_Witness ==
    \E i \in Writes :
        /\ effects[i].is_compressed = 0 /\ effects[i].ok
        /\ effects[i].comp_size = 3 /\ effects[i].size = 5
        /\ effects[i].offset + 5 <= Len(hvp.bytes)
        /\ effects[i].data = <<104, 101, 108, 108, 111>>

\* C3: no request is issued for a node whose metadata the archive does not
\* hold completely.
C3_TruncatedAborts ==
    \A i \in DOMAIN effects : effects[i].at + MetaLen(effects[i]) <= Len(hvp.bytes)

\* a byte that occurs in no UTF-8 text, or a lead byte at the very end
Broken(name) ==
    \/ \E i \in 1..Len(name) : name[i] \in {192, 193} \cup (245..255)
    \/ name # <<>> /\ name[Len(name)] >= 194

\* the name bytes of the node the next call of read_next decodes
NextName ==
    LET nx == read_next(hvp)
    IN  IF nx.file_type = 0 THEN read_directory(nx.file, Top.path).name
        ELSE read_file(nx.file, Top.path).name

\* C4: a node whose name is not valid UTF-8 stops the decode at that node:
\* the step fails, issues no request and changes no file; nothing runs
\* after a failure.
C4_InvalidNameStops ==
    [][/\ (pc = "decode" /\ Broken(NextName)) =>
              (pc' = "panic" /\ failure' = "utf8" /\ effects' = effects /\ fs' = fs)
       /\ pc = "panic" => (pc' = "panic" /\ effects' = effects)]_vars

C4_Witness ==
    /\ pc = "panic" /\ failure = "utf8"
    /\ Len(effects) = 2 /\ Len(stack) = 2

\* C5: an archive that does not start with the tag is reported, and
\* nothing is decoded: no request, no loop, no read past the tag.
C5_BadTagNoEffects ==
    Take(hvp.bytes, 11) # TAG =>
        /\ pc \in {"main", "badtag"}
        /\ effects = <<>> /\ stack = <<>>
        /\ hvp.pos <= 11
        /\ fs.files = {} /\ fs.dirs = {<<>>, <<out_dir>>}

C5_Witness ==
    /\ pc = "badtag"
    /\ Len(hvp.bytes) > HeaderLen
    /\ Take(hvp.bytes, 10) = Take(TAG, 10)

\* whether the effect at index i came from a node below directory effect p
RECURSIVE Below(_, _)
Below(i, p) ==
    IF i = 0 THEN FALSE ELSE effects[i].parent = p \/ Below(effects[i].parent, p)

Children(p) == {i \in DOMAIN effects : effects[i].parent = p}

\* the root entry count as the header holds it
RootCount == read_integer([bytes |-> hvp.bytes, pos |-> 16]).val

\* C6: requests are issued in pre-order of the node stream.  Each node
\* starts where the one before it ends; a node's request comes after the
\* request of its directory and carries the directory's path joined with
\* its name; everything between a directory and one of its children lies
\* in that directory; no directory gets more children than it declares,
\* and at the end each has exactly that many.
C6_PreOrder ==
    /\ \A j \in DOMAIN effects :
          LET e == effects[j]
              p == e.parent
          IN  /\ p < j
              /\ e.at = Min(Len(hvp.bytes),
                            IF j = 1 THEN HeaderLen
                            ELSE effects[j - 1].at + MetaLen(effects[j - 1]))
              /\ p = 0 => e.path = join(out_dir, e.name)
              /\ p > 0 => /\ effects[p].op = "createContainer"
                          /\ e.path = join(effects[p].path, e.name)
                          /\ \A i \in (p + 1)..(j - 1) : Below(i, p)
              /\ e.op = "createContainer" => Cardinality(Children(j)) <= e.count
              /\ e.op = "writeFile" => Children(j) = {}
    /\ pc = "done" =>
          /\ Cardinality(Children(0)) = RootCount
          /\ \A j \in DOMAIN effects : Cardinality(Children(j)) = effects[j].count

C6_Witness ==
    /\ pc = "done" /\ Len(effects) = 3
    /\ effects[1].op = "createContainer" /\ effects[1].name = NameAB
    /\ effects[2].op = "writeFile" /\ effects[2].parent = 1
    /\ effects[2].path = <<111, 47, 97, 47, 98, 47, 98>>
    /\ effects[3].parent = 0

\* the container that holds a path: the components before the last separator
RECURSIVE DirName(_)
DirName(p) ==
    IF p = <<>> THEN <<>>
    ELSE IF p[Len(p)] = Sep THEN Take(p, Len(p) - 1)
    ELSE DirName(Take(p, Len(p) - 1))

Container(p) == Components(DirName(p))

Prepared(j) ==
    \/ Container(effects[j].path) = Components(out_dir)
    \/ \E i \in 1..(j - 1) :
          /\ effects[i].op = "createContainer"
          /\ Components(effects[i].path) = Container(effects[j].path)

\* C7 as stated: whatever the name, the container of a file to write is the
\* output root or the target of an earlier create-directory request.
C7_ContainerCreated == \A j \in Writes : Prepared(j)

\* C7 amended: the same for every file name that holds no separator.
C7_ContainerCreatedPlainName ==
    \A j \in Writes :
        (\A k \in 1..Len(effects[j].name) : effects[j].name[k] # Sep) => Prepared(j)

C7_Witness ==
    \E j \in Writes :
        /\ effects[j].ok /\ effects[j].parent > 0
        /\ effects[j].name = NameB
        /\ effects[effects[j].parent].name = NameAB

\* C8: no file is written from a payload range that leaves the archive.
C8_ReadAtFatal ==
    \A i \in Writes : effects[i].offset + ReadLen(effects[i]) <= Len(hvp.bytes)

\* C9: once a file node is decoded the cursor stands 29 + nameLength bytes
\* past the node's start, and the node after a file node starts there.
C9_CursorAfterFile ==
    /\ (pc \in {"decode", "done"} /\ effects # <<>> /\ Last.op = "writeFile") =>
           hvp.pos = Last.at + 29 + Last.name_length
    /\ \A i \in Writes :
           (i + 1) \in DOMAIN effects =>
               effects[i + 1].at = effects[i].at + 29 + effects[i].name_length

C9_Witness ==
    /\ pc = "done" /\ Len(effects) = 2
    /\ effects[1].op = "writeFile" /\ effects[1].is_compressed # 0
    /\ effects[1].offset + effects[1].comp_size > Len(hvp.bytes)
    /\ effects[2].op = "writeFile" /\ effects[2].name = NameB /\ effects[2].ok

\* C10: when the stream ends before uncompressedSize bytes, the content
\* written has exactly uncompressedSize bytes: the inflated bytes first,
\* zeros after.  Stated for a stream that ends early without an error; how
\* many bytes a failing decoder hands over is left open by Inflated.
C10_ZeroFilledTail ==
    \A i \in Writes :
        LET e == effects[i]
            r == Inflate(StoredAt(e.offset, e.comp_size))
        IN  (e.is_compressed # 0 /\ r.ok /\ Len(r.out) < e.size) =>
                /\ Len(e.data) = e.size
                /\ e.data = r.out \o Zeros(e.size - Len(r.out))

=============================================================================
